---- MODULE Spec2Model ----
(***************************************************************************)
(* Model of litex_boards/targets/sinara_kasli.py: the straight-line        *)
(* bring-up performed by main(), BaseSoC.__init__ and _CRG.__init__.       *)
(* One action per statement group; `log` records the calls made, in order. *)
(***************************************************************************)
EXTENDS Integers, Sequences, FiniteSets, TLC

VARIABLES
    pc,             \* position in main / BaseSoC.__init__ / _CRG.__init__
    args,           \* the request: command line (entry "main") or keyword arguments (entry "BaseSoC")
    log,            \* calls made so far, in program order
    domains,        \* clock domains created by _CRG
    clkouts,        \* number of pll.create_clkout requests per clock domain
    instances,      \* objects constructed so far
    crg_with_dram,  \* with_dram handed to _CRG
    crg_with_qpll,  \* with_qpll handed to _CRG
    self_ram,       \* self.integrated_main_ram_size (-1: attribute not set yet)
    error           \* exception that ended the run, "none" otherwise

vars == <<pc, args, log, domains, clkouts, instances, crg_with_dram, crg_with_qpll, self_ram, error>>

\* Largest integrated_main_ram_size value tried.
MaxRamSize == 2

AllDomains == {"sys", "sys4x", "sys4x_dqs", "idelay"}

----------------------------------------------------------------------------
\* Requests

\* BaseSoC's default for the explicit with_qpll keyword; main() never passes it.
DefaultWithQpll == TRUE

Requests ==
    [ entry          : {"main", "BaseSoC"},
      build          : BOOLEAN,
      load           : BOOLEAN,
      flash          : BOOLEAN,
      with_xadc      : BOOLEAN,
      with_dna       : BOOLEAN,
      with_ethernet  : BOOLEAN,
      with_etherbone : BOOLEAN,
      eth_dynamic_ip : BOOLEAN,
      with_spi_flash : BOOLEAN,
      with_qpll      : BOOLEAN,
      ram_given      : BOOLEAN,
      ram_size       : 0..MaxRamSize ]

\* main() passes no with_qpll; a direct BaseSoC(...) call has no action flags.
\* An absent integrated_main_ram_size keyword carries no value.
ValidRequest(a) ==
    /\ (a.entry = "main"    => a.with_qpll = DefaultWithQpll)
    /\ (a.entry = "BaseSoC" => ~a.build /\ ~a.load /\ ~a.flash)
    /\ (~a.ram_given => a.ram_size = 0)

----------------------------------------------------------------------------
\* Pure pieces of the code

\* kwargs.get("integrated_main_ram_size", default)
KwargsGetRam(a, default) == IF a.ram_given THEN a.ram_size ELSE default

WithDram_mut(a) == KwargsGetRam(a, 1) = 0
\* with_dram = (kwargs.get("integrated_main_ram_size", 0) == 0)
WithDram(a) == KwargsGetRam(a, 0) = 0

ResolveQpll_mut(explicit, with_ethernet, with_etherbone) == explicit \/ with_ethernet
\* with_qpll = with_qpll or with_ethernet or with_etherbone
ResolveQpll(explicit, with_ethernet, with_etherbone) ==
    explicit \/ with_ethernet \/ with_etherbone

AssertCond_mut(a) == TRUE
\* assert not (args.with_etherbone and args.eth_dynamic_ip)
AssertCond(a) == ~(a.with_etherbone /\ a.eth_dynamic_ip)

\* the mutually exclusive argument group of --with-ethernet / --with-etherbone
ParseOk(a) == ~(a.with_ethernet /\ a.with_etherbone)

CrgDomains_mut(with_dram) == {"sys", "idelay"} \cup (IF with_dram THEN {"sys4x", "sys4x_dqs"} ELSE {})
\* the ClockDomain() objects _CRG creates
CrgDomains(with_dram) ==
    {"sys"} \cup (IF with_dram THEN {"sys4x", "sys4x_dqs", "idelay"} ELSE {})

CrgOrder_mut ==
    << "crg_domains", "crg_clk125", "crg_pll", "crg_register_clkin", "crg_ibufds",
       "crg_clkout_sys", "crg_clkout_sys4x", "crg_clkout_sys4x_dqs",
       "crg_clkout_idelay", "crg_idelayctrl", "crg_qpll", "soc_core" >>
\* statement order of _CRG.__init__, then the return into BaseSoC.__init__
CrgOrder ==
    << "crg_domains", "crg_clk125", "crg_ibufds", "crg_pll", "crg_register_clkin",
       "crg_clkout_sys", "crg_clkout_sys4x", "crg_clkout_sys4x_dqs",
       "crg_clkout_idelay", "crg_idelayctrl", "crg_qpll", "soc_core" >>

CrgSucc(p) ==
    LET i == CHOOSE k \in 1..(Len(CrgOrder) - 1) : CrgOrder[k] = p
    IN  CrgOrder[i + 1]

----------------------------------------------------------------------------
\* Log helpers

Events == {log[i] : i \in DOMAIN log}
Count(e) == Cardinality({i \in DOMAIN log : log[i] = e})
Pos(e) == CHOOSE i \in DOMAIN log : log[i] = e
\* b, if it happened, was preceded by a
Precedes(a, b) == b \in Events => (a \in Events /\ Pos(a) < Pos(b))

Raise(e) ==
    /\ error' = e
    /\ pc' = "done"

----------------------------------------------------------------------------
Init ==
    /\ args \in {a \in Requests : ValidRequest(a)}
    /\ pc = IF args.entry = "main" THEN "parse_args" ELSE "soc_platform"
    /\ log = << >>
    /\ domains = {}
    /\ clkouts = [d \in AllDomains |-> 0]
    /\ instances = {}
    /\ crg_with_dram = FALSE
    /\ crg_with_qpll = FALSE
    /\ self_ram = -1
    /\ error = "none"

----------------------------------------------------------------------------
\* main(), first part

ParseArgs ==
    /\ pc = "parse_args"
    /\ log' = Append(log, "parse_args")
    /\ IF ParseOk(args)
       THEN pc' = "assert" /\ error' = error
       ELSE Raise("SystemExit")
    /\ UNCHANGED <<args, domains, clkouts, instances, crg_with_dram, crg_with_qpll, self_ram>>

AssertEtherbone ==
    /\ pc = "assert"
    /\ log' = Append(log, "assert")
    /\ IF AssertCond(args)
       THEN pc' = "soc_platform" /\ error' = error
       ELSE Raise("AssertionError")
    /\ UNCHANGED <<args, domains, clkouts, instances, crg_with_dram, crg_with_qpll, self_ram>>

----------------------------------------------------------------------------
\* BaseSoC.__init__, up to the _CRG call

SocPlatform ==
    /\ pc = "soc_platform"
    /\ log' = log \o <<"BaseSoC", "Platform">>
    /\ instances' = instances \cup {"platform"}
    /\ pc' = "soc_flags"
    /\ UNCHANGED <<args, domains, clkouts, crg_with_dram, crg_with_qpll, self_ram, error>>

SocFlags ==
    /\ pc = "soc_flags"
    /\ crg_with_dram' = WithDram(args)
    /\ crg_with_qpll' = ResolveQpll(args.with_qpll, args.with_ethernet, args.with_etherbone)
    /\ log' = Append(log, "_CRG")
    /\ pc' = CrgOrder[1]
    /\ UNCHANGED <<args, domains, clkouts, instances, self_ram, error>>

----------------------------------------------------------------------------
\* _CRG.__init__

CrgStep(p, ev) ==
    /\ pc = p
    /\ log' = log \o ev
    /\ pc' = CrgSucc(p)
    /\ UNCHANGED <<args, crg_with_dram, crg_with_qpll, self_ram, error>>

\* pll.create_clkout(cd, ...): one more driver request for cd
CreateClkout(cd) == clkouts' = [clkouts EXCEPT ![cd] = @ + 1]

CrgClockDomains ==
    /\ CrgStep("crg_domains", << >>)
    /\ domains' = domains \cup CrgDomains(crg_with_dram)
    /\ UNCHANGED <<clkouts, instances>>

CrgClk125 ==
    /\ CrgStep("crg_clk125", <<"request(clk125_gtp)", "add_period_constraint">>)
    /\ UNCHANGED <<domains, clkouts, instances>>

CrgIbufds ==
    /\ CrgStep("crg_ibufds", <<"IBUFDS_GTE2">>)
    /\ instances' = instances \cup {"IBUFDS_GTE2"}
    /\ UNCHANGED <<domains, clkouts>>

CrgPll ==
    /\ CrgStep("crg_pll", <<"S7MMCM">>)
    /\ instances' = instances \cup {"pll"}
    /\ UNCHANGED <<domains, clkouts>>

CrgRegisterClkin ==
    /\ CrgStep("crg_register_clkin", <<"register_clkin">>)
    /\ UNCHANGED <<domains, clkouts, instances>>

CrgClkoutSys ==
    /\ CrgStep("crg_clkout_sys", <<"create_clkout(sys)">>)
    /\ CreateClkout("sys")
    /\ UNCHANGED <<domains, instances>>

CrgClkoutSys4x ==
    /\ CrgStep("crg_clkout_sys4x", IF crg_with_dram THEN <<"create_clkout(sys4x)">> ELSE << >>)
    /\ IF crg_with_dram THEN CreateClkout("sys4x") ELSE UNCHANGED clkouts
    /\ UNCHANGED <<domains, instances>>

CrgClkoutSys4xDqs ==
    /\ CrgStep("crg_clkout_sys4x_dqs", IF crg_with_dram THEN <<"create_clkout(sys4x_dqs)">> ELSE << >>)
    /\ IF crg_with_dram THEN CreateClkout("sys4x_dqs") ELSE UNCHANGED clkouts
    /\ UNCHANGED <<domains, instances>>

CrgClkoutIdelay ==
    /\ CrgStep("crg_clkout_idelay", IF crg_with_dram THEN <<"create_clkout(idelay)">> ELSE << >>)
    /\ IF crg_with_dram THEN CreateClkout("idelay") ELSE UNCHANGED clkouts
    /\ UNCHANGED <<domains, instances>>

CrgIdelayCtrl ==
    /\ CrgStep("crg_idelayctrl", IF crg_with_dram THEN <<"S7IDELAYCTRL">> ELSE << >>)
    /\ instances' = instances \cup (IF crg_with_dram THEN {"idelayctrl"} ELSE {})
    /\ UNCHANGED <<domains, clkouts>>

CrgQpll ==
    /\ CrgStep("crg_qpll", (IF crg_with_qpll THEN <<"QPLL">> ELSE << >>) \o <<"_CRG return">>)
    /\ instances' = instances \cup (IF crg_with_qpll THEN {"qpll"} ELSE {})
    /\ UNCHANGED <<domains, clkouts>>

----------------------------------------------------------------------------
\* BaseSoC.__init__, after the _CRG call

\* SoCCore.__init__(self, platform, sys_clk_freq, **kwargs) receives the same
\* keyword arguments; it keeps integrated_main_ram_size (its default is 0) as
\* self.integrated_main_ram_size.
SocCore ==
    /\ pc = "soc_core"
    /\ log' = Append(log, "SoCCore.__init__")
    /\ self_ram' = KwargsGetRam(args, 0)
    /\ instances' = instances \cup {"soccore"}
    /\ pc' = "soc_xadc"
    /\ UNCHANGED <<args, domains, clkouts, crg_with_dram, crg_with_qpll, error>>

SocXadc ==
    /\ pc = "soc_xadc"
    /\ log' = log \o (IF args.with_xadc THEN <<"XADC">> ELSE << >>)
    /\ instances' = instances \cup (IF args.with_xadc THEN {"xadc"} ELSE {})
    /\ pc' = "soc_dna"
    /\ UNCHANGED <<args, domains, clkouts, crg_with_dram, crg_with_qpll, self_ram, error>>

SocDna ==
    /\ pc = "soc_dna"
    /\ log' = log \o (IF args.with_dna THEN <<"DNA">> ELSE << >>)
    /\ instances' = instances \cup (IF args.with_dna THEN {"dna"} ELSE {})
    /\ pc' = "soc_ddr"
    /\ UNCHANGED <<args, domains, clkouts, crg_with_dram, crg_with_qpll, self_ram, error>>

\* if not self.integrated_main_ram_size:
SocDdr ==
    /\ pc = "soc_ddr"
    /\ log' = log \o (IF self_ram = 0 THEN <<"A7DDRPHY", "add_sdram">> ELSE << >>)
    /\ instances' = instances \cup (IF self_ram = 0 THEN {"ddrphy", "sdram"} ELSE {})
    /\ pc' = "soc_ethphy"
    /\ UNCHANGED <<args, domains, clkouts, crg_with_dram, crg_with_qpll, self_ram, error>>

\* self.crg.qpll exists only when _CRG took its with_qpll branch; reading it
\* otherwise raises AttributeError before A7_1000BASEX is called.
SocEthPhy ==
    /\ pc = "soc_ethphy"
    /\ IF "qpll" \in instances
       THEN /\ log' = log \o <<"crg.qpll.channels[0]", "A7_1000BASEX">>
            /\ instances' = instances \cup {"ethphy"}
            /\ pc' = "soc_ethernet"
            /\ error' = error
       ELSE /\ log' = log \o <<"crg.qpll.channels[0]">>
            /\ instances' = instances
            /\ Raise("AttributeError")
    /\ UNCHANGED <<args, domains, clkouts, crg_with_dram, crg_with_qpll, self_ram>>

SocEthernet ==
    /\ pc = "soc_ethernet"
    /\ log' = log \o (IF args.with_ethernet THEN <<"add_ethernet">> ELSE << >>)
    /\ instances' = instances \cup (IF args.with_ethernet THEN {"ethernet"} ELSE {})
    /\ pc' = "soc_etherbone"
    /\ UNCHANGED <<args, domains, clkouts, crg_with_dram, crg_with_qpll, self_ram, error>>

SocEtherbone ==
    /\ pc = "soc_etherbone"
    /\ log' = log \o (IF args.with_etherbone THEN <<"add_etherbone">> ELSE << >>)
    /\ instances' = instances \cup (IF args.with_etherbone THEN {"etherbone"} ELSE {})
    /\ pc' = "soc_spi"
    /\ UNCHANGED <<args, domains, clkouts, crg_with_dram, crg_with_qpll, self_ram, error>>

\* the raise comes first; the add_spi_flash call below it is never executed
SocSpiFlash ==
    /\ pc = "soc_spi"
    /\ IF args.with_spi_flash
       THEN /\ Raise("NotImplementedError(SPI Flash)")
            /\ log' = log
       ELSE /\ pc' = IF args.entry = "main" THEN "main_builder" ELSE "done"
            /\ error' = error
            /\ log' = Append(log, "BaseSoC return")
    /\ UNCHANGED <<args, domains, clkouts, instances, crg_with_dram, crg_with_qpll, self_ram>>

----------------------------------------------------------------------------
\* main(), after BaseSoC(...)

MainBuilder ==
    /\ pc = "main_builder"
    /\ log' = Append(log, "Builder")
    /\ instances' = instances \cup {"builder"}
    /\ pc' = "main_build"
    /\ UNCHANGED <<args, domains, clkouts, crg_with_dram, crg_with_qpll, self_ram, error>>

MainBuild ==
    /\ pc = "main_build"
    /\ log' = log \o (IF args.build THEN <<"builder.build">> ELSE << >>)
    /\ pc' = "main_load"
    /\ UNCHANGED <<args, domains, clkouts, instances, crg_with_dram, crg_with_qpll, self_ram, error>>

MainLoad ==
    /\ pc = "main_load"
    /\ log' = log \o (IF args.load THEN <<"create_programmer", "load_bitstream">> ELSE << >>)
    /\ instances' = instances \cup (IF args.load THEN {"programmer"} ELSE {})
    /\ pc' = "main_flash"
    /\ UNCHANGED <<args, domains, clkouts, crg_with_dram, crg_with_qpll, self_ram, error>>

\* the raise comes first; create_programmer / prog.flash below it are never executed
MainFlash ==
    /\ pc = "main_flash"
    /\ IF args.flash
       THEN Raise("NotImplementedError(Flash)")
       ELSE pc' = "done" /\ error' = error
    /\ UNCHANGED <<args, log, domains, clkouts, instances, crg_with_dram, crg_with_qpll, self_ram>>

----------------------------------------------------------------------------
Next ==
    \/ ParseArgs
    \/ AssertEtherbone
    \/ SocPlatform
    \/ SocFlags
    \/ CrgClockDomains
    \/ CrgClk125
    \/ CrgIbufds
    \/ CrgPll
    \/ CrgRegisterClkin
    \/ CrgClkoutSys
    \/ CrgClkoutSys4x
    \/ CrgClkoutSys4xDqs
    \/ CrgClkoutIdelay
    \/ CrgIdelayCtrl
    \/ CrgQpll
    \/ SocCore
    \/ SocXadc
    \/ SocDna
    \/ SocDdr
    \/ SocEthPhy
    \/ SocEthernet
    \/ SocEtherbone
    \/ SocSpiFlash
    \/ MainBuilder
    \/ MainBuild
    \/ MainLoad
    \/ MainFlash

Spec == Init /\ [][Next]_vars

TypeOK ==
    /\ args \in Requests
    /\ domains \subseteq AllDomains
    /\ clkouts \in [AllDomains -> 0..4]
    /\ crg_with_dram \in BOOLEAN
    /\ crg_with_qpll \in BOOLEAN
    /\ self_ram \in -1..MaxRamSize
    /\ error \in {"none", "SystemExit", "AssertionError", "AttributeError",
                  "NotImplementedError(SPI Flash)", "NotImplementedError(Flash)"}

----------------------------------------------------------------------------
\* Positions used by the properties

CrgReturned == "_CRG return" \in Events
\* the DDR3 section of BaseSoC.__init__ has been executed
DdrSectionDone == self_ram # -1 /\ pc \notin {"soc_xadc", "soc_dna", "soc_ddr"}
\* BaseSoC(...) was entered and has returned or raised
SocEnded == "BaseSoC" \in Events /\ (pc = "done" \/ "BaseSoC return" \in Events)
DramDomains == {"sys4x", "sys4x_dqs", "idelay"}
ClkoutEvent(d) == CASE d = "sys"       -> "create_clkout(sys)"
                    [] d = "sys4x"     -> "create_clkout(sys4x)"
                    [] d = "sys4x_dqs" -> "create_clkout(sys4x_dqs)"
                    [] d = "idelay"    -> "create_clkout(idelay)"

----------------------------------------------------------------------------
\* Properties

\* C1: whenever main() ends with the flash "not supported" error, no
\* create_programmer / load_bitstream / flash call has been made in the run.
C1_FlashErrorBeforeProgrammer ==
    error = "NotImplementedError(Flash)" =>
        Events \cap {"create_programmer", "load_bitstream", "flash"} = {}

\* C2: through main(), Etherbone with dynamic IP ends in the assertion error
\* with no clock domain, object or BaseSoC call made; Etherbone without dynamic
\* IP passes the assertion and enters BaseSoC construction.
C2_EtherboneDynamicIp ==
    (args.entry = "main" /\ ParseOk(args) /\ args.with_etherbone) =>
        IF args.eth_dynamic_ip
        THEN /\ domains = {}
             /\ instances = {}
             /\ "BaseSoC" \notin Events
             /\ ("assert" \in Events => pc = "done" /\ error = "AssertionError")
        ELSE /\ error # "AssertionError"
             /\ ("assert" \in Events => pc = "soc_platform" \/ "BaseSoC" \in Events)

C2_Witness ==
    /\ args.entry = "main" /\ args.with_etherbone /\ args.eth_dynamic_ip
    /\ "assert" \in Events
    /\ error = "AssertionError"

\* C3: when a run ends with an unsupported-feature error (SPI flash or flash
\* programming), no clock domain, synthesizer, transceiver PLL, DRAM PHY or
\* Ethernet PHY exists and no build or bitstream load has run.
C3_UnsupportedErrorsPreBringUp ==
    error \in {"NotImplementedError(SPI Flash)", "NotImplementedError(Flash)"} =>
        /\ domains = {}
        /\ instances \cap {"pll", "qpll", "ddrphy", "ethphy"} = {}
        /\ Events \cap {"builder.build", "load_bitstream"} = {}

\* C4: _CRG always creates sys; it creates sys4x, sys4x_dqs, idelay, their three
\* synthesizer outputs and the delay-calibration unit iff with_dram; it creates
\* the transceiver PLL iff with_qpll.  Nothing optional exists at any time when
\* its flag is false.
C4_CrgInstantiation ==
    /\ (~crg_with_dram => domains \subseteq {"sys"} /\ "idelayctrl" \notin instances
                          /\ \A d \in DramDomains : clkouts[d] = 0)
    /\ (~crg_with_qpll => "qpll" \notin instances)
    /\ CrgReturned =>
        /\ domains = {"sys"} \cup (IF crg_with_dram THEN DramDomains ELSE {})
        /\ clkouts["sys"] = 1
        /\ \A d \in DramDomains : clkouts[d] = (IF crg_with_dram THEN 1 ELSE 0)
        /\ ("idelayctrl" \in instances) <=> crg_with_dram
        /\ ("qpll" \in instances) <=> crg_with_qpll

C4_Witness ==
    /\ CrgReturned /\ crg_with_dram /\ ~crg_with_qpll
    /\ domains = AllDomains /\ "qpll" \notin instances

\* C5: the with_qpll handed to _CRG is (explicit flag OR with_ethernet OR
\* with_etherbone).
C5_QpllResolution ==
    "_CRG" \in Events =>
        crg_with_qpll = (args.with_qpll \/ args.with_ethernet \/ args.with_etherbone)

C5_Witness ==
    /\ "_CRG" \in Events
    /\ ~args.with_qpll /\ ~args.with_ethernet /\ args.with_etherbone
    /\ crg_with_qpll

\* C6: add_spi_flash is never called; a BaseSoC construction with
\* with_spi_flash ends with the SPI flash error, one without never raises it.
C6_SpiFlashRejected ==
    /\ "add_spi_flash" \notin Events
    /\ "spi_flash" \notin instances
    /\ SocEnded => (args.with_spi_flash <=> error = "NotImplementedError(SPI Flash)")

\* C8: channel 0 of crg.qpll is read only when the transceiver PLL exists, so
\* no run fails on a missing crg.qpll.
C8_EthPhyOnlyWithQpll ==
    /\ ("crg.qpll.channels[0]" \in Events => crg_with_qpll)
    /\ error # "AttributeError"

C10_CrgOrder ==
    /\ Precedes("IBUFDS_GTE2", "register_clkin")
    /\ Precedes("S7MMCM", "register_clkin")
    /\ \A d \in AllDomains : Precedes("register_clkin", ClkoutEvent(d))
    /\ Precedes("create_clkout(idelay)", "S7IDELAYCTRL")
    /\ Precedes("IBUFDS_GTE2", "QPLL")
    /\ \A e \in Events : Count(e) = 1
    /\ \A d \in AllDomains : clkouts[d] = Count(ClkoutEvent(d))
    /\ \A d \in AllDomains : clkouts[d] > 0 => d \in domains
    /\ CrgReturned => \A d \in domains : clkouts[d] = 1

C10_Witness ==
    /\ CrgReturned /\ crg_with_dram /\ crg_with_qpll
    /\ "S7IDELAYCTRL" \in Events /\ "QPLL" \in Events

====
